---- MODULE Spec2Model ----
(***************************************************************************)
(* Workflow orchestration engine of researchAIde (backend/app/orchestration)*)
(*                                                                         *)
(* One workflow id (LangGraph thread id) is modelled.  The variables are   *)
(* the GraphState channels kept by the checkpointer for that thread, plus  *)
(* the engine's position (pc: the node the compiled graph runs next).      *)
(* Every graph node registered in ResearchOrchestrator._build_graph is one *)
(* action: it computes the delta the node function returns, merges it into *)
(* the channels (the messages channel through its add_messages reducer,    *)
(* every other channel by overwrite) and then evaluates the conditional    *)
(* edge registered for the node.  The two API operations that start graph  *)
(* runs, start_workflow and submit_shortlist_review, are actions too.      *)
(*                                                                         *)
(* Level of abstraction: control flow and state updates as written in the  *)
(* node functions; collaborator calls (agents, services) are inputs chosen *)
(* from small sets, including the case that the call raises.  Node         *)
(* functions are taken to be entered with the parameters they declare.     *)
(*                                                                         *)
(* Besides the workflow (Spec, Interleaving) the module follows three      *)
(* parts on their own: should_refine_further as a function of the state    *)
(* (Routing), the conflict and final nodes from the states in which they   *)
(* are entered (Units), and services/session_storage.py (Sessions).        *)
(***************************************************************************)
EXTENDS Integers, Sequences, FiniteSets, TLC

\* ------------------------------------------------------------------ bounds
\* Calls of POST /workflows/ for the one workflow id, and how many of them
\* carry a non-empty research_query.
MaxStarts == 3
MaxValidStarts == 1
\* Calls of POST /workflows/{id}/shortlist_review.
MaxReviews == 1
\* Papers one arXiv search returns.
MaxPapers == 1
\* Graph runs in flight at once for the one workflow id (Interleaving).
MaxTasks == 2
\* Largest iteration_count handed to should_refine_further (Routing).
MaxIterationInput == 4
\* Latest reading of the clock, in seconds (Sessions).
MaxClock == 30600

\* --------------------------------------------------------------- constants
MAX_ITERATIONS_REFINE == 3
MAX_RETRIES == 2
MIN_ACCEPTABLE_SCORE == 85
DEFAULT_SHORTLISTING_THRESHOLD == 70
SESSION_IDLE_TIMEOUT_SECONDS == 1800
SESSION_ABSOLUTE_TIMEOUT_SECONDS == 28800

\* Python None for string-valued channels, for list-valued channels and for
\* the integer channel iteration_count (the key is absent until written).
NoneStr == "None"
NoneList == <<[none |-> TRUE]>>
NoCandidates == <<"None">>
UNSET == -1
END == "__end__"
IDLE == "__idle__"
RAISED == "__raised__"

\* Scores are percentages: 50 stands for 0.5, 90 for 0.9.
Scores == {50, 90}
\* str(e) of the exception a collaborator raises; an exception built without
\* arguments (asyncio.TimeoutError()) has the empty string as its text.
ErrorTexts == {"", "boom"}

VARIABLES
    pc,                         \* node the engine executes next, END, IDLE or RAISED
    last_node,                  \* node that ran last (the checkpoint's latest writer)
    starts, valid_starts, reviews,  \* API calls made so far
    tasks,                      \* graph runs scheduled as background tasks
    research_query, config_parameters,
    constructed_queries, raw_arxiv_results, scored_arxiv_results,
    initial_paper_shortlist, confirmed_paper_shortlist, ingestion_reports,
    literature_analysis_output, conflict_detected, identified_gaps_output,
    generated_directions_output, iteration_count, postdoc_evaluation_output,
    refined_directions_output, workflow_outcome,
    messages,
    error_message, error_source_node, error_details,
    recovery_strategy_decision, retry_attempts,
    executions, failures,       \* history: runs and error deltas per node function
    conflicting_outputs, user_facing_report_data,
    returned_label,             \* label should_refine_further returned (Routing)
    _session_store,             \* services/session_storage.py: session id -> session
    now,                        \* datetime.utcnow(), in seconds
    returned,                   \* what the last session_storage call returned
    marked                      \* history: ids get_session has marked EXPIRED

inputs == <<research_query, config_parameters>>
search_vars == <<constructed_queries, raw_arxiv_results, scored_arxiv_results>>
shortlist_vars == <<initial_paper_shortlist, confirmed_paper_shortlist, ingestion_reports>>
analysis_vars == <<literature_analysis_output, conflict_detected, identified_gaps_output>>
refine_vars == <<generated_directions_output, iteration_count, postdoc_evaluation_output,
                 refined_directions_output>>
error_vars == <<error_message, error_source_node, error_details>>
retry_vars == <<recovery_strategy_decision, retry_attempts>>
api_vars == <<starts, valid_starts, reviews, tasks>>
history == <<executions, failures>>
unit_vars == <<conflicting_outputs, user_facing_report_data, returned_label>>
session_vars == <<_session_store, now, returned, marked>>

vars == <<pc, last_node, api_vars, inputs, search_vars, shortlist_vars, analysis_vars,
          refine_vars, workflow_outcome, messages, error_vars, retry_vars, history,
          unit_vars, session_vars>>

\* ------------------------------------------------------------ graph tables
\* Node function names: the value every node writes into error_source_node.
FunctionNames == {
    "initialize_workflow_node", "formulate_search_queries_node",
    "execute_arxiv_search_node", "score_paper_relevance_node",
    "create_initial_shortlist_node", "request_shortlist_review_node",
    "process_and_ingest_papers_node", "perform_literature_analysis_node",
    "identify_research_gaps_node", "generate_research_directions_node",
    "evaluate_research_directions_node", "refine_directions_based_on_assessment_node",
    "prepare_final_output_node", "resolve_conflict_node" }

RETRYABLE_NODES == {
    "initializing", "planning", "searching",
    "score_paper_relevance", "create_initial_shortlist", "request_shortlist_review",
    "processing_papers", "literature_analysis",
    "identifying_gaps", "generating_directions",
    "evaluate_research_directions", "refine_directions",
    "presenting_final_directions", "resolve_conflict" }

\* Every node of the graph but the error handler.
PipelineNodes == RETRYABLE_NODES \cup {"check_conflict_after_literature_analysis",
                                      "check_refinement_loop_condition"}

\* The "no_error" target of the conditional edge registered for each node.
SuccessTarget(node) ==
    CASE node = "initializing" -> "planning"
      [] node = "planning" -> "searching"
      [] node = "searching" -> "score_paper_relevance"
      [] node = "score_paper_relevance" -> "create_initial_shortlist"
      [] node = "create_initial_shortlist" -> "request_shortlist_review"
      [] node = "request_shortlist_review" -> "processing_papers"
      [] node = "processing_papers" -> "literature_analysis"
      [] node = "literature_analysis" -> "check_conflict_after_literature_analysis"
      [] node = "resolve_conflict" -> "identifying_gaps"
      [] node = "identifying_gaps" -> "generating_directions"
      [] node = "generating_directions" -> "evaluate_research_directions"
      [] node = "evaluate_research_directions" -> "refine_directions"
      [] node = "refine_directions" -> "check_refinement_loop_condition"
      [] node = "presenting_final_directions" -> END

\* workflow.add_node(id, function): the function registered under each id.
NodeFunction(node) ==
    CASE node = "initializing" -> "initialize_workflow_node"
      [] node = "planning" -> "formulate_search_queries_node"
      [] node = "searching" -> "execute_arxiv_search_node"
      [] node = "score_paper_relevance" -> "score_paper_relevance_node"
      [] node = "create_initial_shortlist" -> "create_initial_shortlist_node"
      [] node = "request_shortlist_review" -> "request_shortlist_review_node"
      [] node = "processing_papers" -> "process_and_ingest_papers_node"
      [] node = "literature_analysis" -> "perform_literature_analysis_node"
      [] node = "identifying_gaps" -> "identify_research_gaps_node"
      [] node = "generating_directions" -> "generate_research_directions_node"
      [] node = "evaluate_research_directions" -> "evaluate_research_directions_node"
      [] node = "refine_directions" -> "refine_directions_based_on_assessment_node"
      [] node = "presenting_final_directions" -> "prepare_final_output_node"
      [] node = "resolve_conflict" -> "resolve_conflict_node"

\* (check_for_errors_not_none is the test `is not None` in place of truthiness.)
check_for_errors_not_none(em) ==
    IF em # NoneStr THEN "error_found" ELSE "no_error"
check_for_errors(em) ==
    IF em # NoneStr /\ em # "" THEN "error_found" ELSE "no_error"

\* add_conditional_edges(node, check_for_errors, {...}) evaluated on the merged state.
AfterNode(node, em) ==
    IF check_for_errors(em) = "error_found" THEN "global_error_handler"
    ELSE SuccessTarget(node)

route_after_error_handler(decision, source_node) ==
    IF decision = "RETRY_NODE"
    THEN IF source_node \in RETRYABLE_NODES THEN source_node ELSE END
    ELSE END

check_for_conflict(cd) ==
    IF cd THEN "conflict_found" ELSE "no_conflict"

ConflictBranchMap ==
    [conflict_found |-> "resolve_conflict", no_conflict |-> "identifying_gaps"]

\* (should_refine_strict is the function with > for >= in both comparisons.)
should_refine_strict(ic, eval) ==
    IF eval.accept_as_is THEN "finalize_output"
    ELSE IF ic > MAX_ITERATIONS_REFINE THEN "finalize_output"
    ELSE IF eval.score > MIN_ACCEPTABLE_SCORE THEN "finalize_output"
    ELSE "refine_directions"
should_refine_further(ic, eval) ==
    IF eval.accept_as_is THEN "finalize_output"
    ELSE IF ic >= MAX_ITERATIONS_REFINE THEN "finalize_output"
    ELSE IF eval.score >= MIN_ACCEPTABLE_SCORE THEN "finalize_output"
    ELSE "refine_directions"

\* The test of should_refine_further that decides, in the order of the code.
FinalizeReason(ic, eval) ==
    IF eval.accept_as_is THEN "accepted"
    ELSE IF ic >= MAX_ITERATIONS_REFINE THEN "iteration_cap"
    ELSE IF eval.score >= MIN_ACCEPTABLE_SCORE THEN "score_threshold"
    ELSE "continue"

RefinementBranchMap ==
    [evaluate_research_directions |-> "evaluate_research_directions",
     presenting_final_directions |-> "presenting_final_directions"]

\* A routing label that is no key of the branch map leaves the engine without
\* a target: the run ends with an exception, the checkpoint stays as it is.
Lookup(map, label) ==
    IF label \in DOMAIN map THEN map[label] ELSE RAISED

\* ---------------------------------------------------------------- messages
\* An AgentMessage; id 0 is a message that has no id yet.
AgentMessage(sender, performative, detail) ==
    [id |-> 0, sender |-> sender, performative |-> performative, detail |-> detail]

MaxId(msgs) ==
    LET ids == {msgs[i].id : i \in DOMAIN msgs}
    IN IF ids = {} THEN 0 ELSE CHOOSE m \in ids : \A k \in ids : k <= m

RECURSIVE add_messages(_, _)
\* langgraph's reducer: a message without id gets a fresh one; a message whose
\* id is already in the left list replaces that entry, any other is appended.
add_messages(left, right) ==
    IF right = <<>> THEN left
    ELSE LET m0 == Head(right)
             m == IF m0.id = 0 THEN [m0 EXCEPT !.id = MaxId(left) + 1] ELSE m0
             at == {i \in DOMAIN left : left[i].id = m.id}
         IN add_messages(IF at # {} THEN [left EXCEPT ![CHOOSE i \in at : TRUE] = m]
                         ELSE Append(left, m),
                         Tail(right))

\* The messages channel: Annotated[List[AgentMessage], add_messages].
\* (MessagesOverwrite is the channel as it would be without the reducer.)
MessagesOverwrite(old, update) == update
MessagesChannel(old, update) == add_messages(old, update)

\* A node that returns "messages": add_messages(state.get("messages", []), [m]).
WholeLog(m) == add_messages(messages, <<m>>)
\* A node that returns "messages": [m].
OnlyNew(m) == <<m>>

Truthy(list) == list # NoneList /\ list # <<>>
OrEmpty(list) == IF list = NoneList THEN <<>> ELSE list

\* ------------------------------------------------------------ stage values
NoOutput == [status |-> "None", directions |-> 0]
NoEvaluation == [status |-> "None", accept_as_is |-> FALSE, score |-> 0, assessments |-> FALSE]
\* What PostDocAgent.evaluate_research_directions can hand back (model_dump).
EvaluationResults ==
    {[status |-> "evaluation_by_postdoc_complete", accept_as_is |-> a, score |-> sc,
      assessments |-> as] : <<a, sc, as>> \in {<<FALSE, 50, TRUE>>, <<FALSE, 90, TRUE>>,
                                               <<TRUE, 50, TRUE>>, <<FALSE, 50, FALSE>>}}
NoRetries == [f \in FunctionNames |-> 0]
ConfigParameters == [hitl_shortlist_review_active : BOOLEAN]
Queries == {"", "q"}

\* request_shortlist_review_node(state, graph_checkpointer=None) is registered
\* without a checkpointer argument.
graph_checkpointer == FALSE

\* state.get("refined_directions_output") or state.get("generated_directions_output")
CurrentDirections ==
    IF refined_directions_output.status # "None" THEN refined_directions_output
    ELSE generated_directions_output

Prefix(n) == [i \in 1..n |-> [id |-> i]]

\* ----------------------------------------------------------- session store
SessionIds == {"s1"}
NoSession == [status |-> "absent", expires_at |-> 0, last_activity_at |-> 0]

NoCall == [op |-> "None", value |-> "None"]

\* _session_store: Dict[UUID, ResearchSession] = {}
NoSessions ==
    /\ _session_store = [id \in SessionIds |-> NoSession]
    /\ now = 0
    /\ returned = NoCall
    /\ marked = {}

\* -------------------------------------------------------------------- Init
Init ==
    /\ pc = IDLE
    /\ last_node = IDLE
    /\ starts = 0
    /\ valid_starts = 0
    /\ reviews = 0
    /\ tasks = <<>>
    /\ research_query = NoneStr
    /\ config_parameters = [hitl_shortlist_review_active |-> FALSE]
    /\ constructed_queries = NoneList
    /\ raw_arxiv_results = NoneList
    /\ scored_arxiv_results = NoneList
    /\ initial_paper_shortlist = NoneList
    /\ confirmed_paper_shortlist = NoneList
    /\ ingestion_reports = NoneList
    /\ literature_analysis_output = "None"
    /\ conflict_detected = FALSE
    /\ identified_gaps_output = "None"
    /\ generated_directions_output = NoOutput
    /\ iteration_count = UNSET
    /\ postdoc_evaluation_output = NoEvaluation
    /\ refined_directions_output = NoOutput
    /\ workflow_outcome = NoneStr
    /\ messages = <<>>
    /\ error_message = NoneStr
    /\ error_source_node = NoneStr
    /\ error_details = NoneStr
    /\ recovery_strategy_decision = NoneStr
    /\ retry_attempts = NoRetries
    /\ executions = NoRetries
    /\ failures = NoRetries
    /\ conflicting_outputs = NoCandidates
    /\ user_facing_report_data = NoneStr
    /\ returned_label = NoneStr
    /\ NoSessions

\* ------------------------------------------------------------ step effects
\* The three error channels as a node's error delta and success delta set them.
ReportError(fn, em) ==
    /\ error_message' = em
    /\ error_source_node' = fn
    /\ error_details' = "traceback"

ClearError ==
    /\ error_message' = NoneStr
    /\ error_source_node' = NoneStr
    /\ error_details' = NoneStr

\* Bookkeeping of one node execution, then the node's conditional edge.
Ran(node, fn, failed) ==
    /\ last_node' = node
    /\ executions' = [executions EXCEPT ![fn] = @ + 1]
    /\ failures' = IF failed THEN [failures EXCEPT ![fn] = @ + 1] ELSE failures
    /\ pc' = AfterNode(node, error_message')

Append1(m) == messages' = MessagesChannel(messages, m)

\* ------------------------------------------------------------- API: start
\* POST /workflows/: graph.ainvoke(initial_state, {thread_id}) as a background
\* task.  The input is written over the thread's checkpointed channels and the
\* graph runs from its entry node.
start_workflow ==
    /\ pc \in {IDLE, END, RAISED}
    /\ starts < MaxStarts
    /\ \E q \in Queries, cfg \in ConfigParameters :
          /\ q # "" => valid_starts < MaxValidStarts
          /\ research_query' = q
          /\ config_parameters' = cfg
          /\ valid_starts' = IF q # "" THEN valid_starts + 1 ELSE valid_starts
    /\ starts' = starts + 1
    /\ messages' = MessagesChannel(messages, <<>>)
    /\ constructed_queries' = NoneList
    /\ raw_arxiv_results' = NoneList
    /\ initial_paper_shortlist' = NoneList
    /\ ClearError
    /\ pc' = "initializing"
    /\ UNCHANGED <<unit_vars, session_vars, last_node, reviews, tasks, scored_arxiv_results, confirmed_paper_shortlist,
                   ingestion_reports, analysis_vars, refine_vars, workflow_outcome,
                   retry_vars, history>>

\* ------------------------------------------------------------------- nodes
initialize_workflow_node ==
    /\ pc = "initializing"
    /\ IF research_query = "" \/ research_query = NoneStr
       THEN /\ ReportError("initialize_workflow_node",
                           "Research query is missing in the initial state.")
            /\ UNCHANGED <<iteration_count, retry_attempts, messages>>
       ELSE /\ iteration_count' = 0
            /\ retry_attempts' = NoRetries
            /\ Append1(OnlyNew(AgentMessage("SystemInitializer", "inform_state",
                                            "Workflow initialized")))
            /\ ClearError
    /\ Ran("initializing", "initialize_workflow_node", error_message' # NoneStr)
    /\ UNCHANGED <<api_vars, unit_vars, session_vars, inputs, search_vars, shortlist_vars, analysis_vars,
                   generated_directions_output, postdoc_evaluation_output,
                   refined_directions_output, workflow_outcome,
                   recovery_strategy_decision>>

formulate_search_queries_node ==
    /\ pc = "planning"
    /\ \/ \E em \in ErrorTexts :
            /\ ReportError("formulate_search_queries_node", em)
            /\ constructed_queries' = <<>>
            /\ Append1(WholeLog(AgentMessage("formulate_search_queries_node",
                                             "error_report", em)))
            /\ Ran("planning", "formulate_search_queries_node", TRUE)
       \/ \E n \in 0..1 :
            /\ ClearError
            /\ constructed_queries' = Prefix(n)
            /\ Append1(WholeLog(AgentMessage("formulate_search_queries_node",
                                             "inform_result", "query_formulation_complete")))
            /\ Ran("planning", "formulate_search_queries_node", FALSE)
    /\ UNCHANGED <<api_vars, unit_vars, session_vars, inputs, raw_arxiv_results, scored_arxiv_results,
                   shortlist_vars, analysis_vars, refine_vars, workflow_outcome,
                   retry_vars>>

execute_arxiv_search_node ==
    /\ pc = "searching"
    /\ IF ~Truthy(constructed_queries)
       THEN /\ raw_arxiv_results' = <<>>
            /\ Append1(OnlyNew(AgentMessage("execute_arxiv_search_node", "status_update",
                                            "skipped_no_valid_queries")))
       ELSE \E n \in 0..MaxPapers :
            /\ raw_arxiv_results' = Prefix(n)
            /\ Append1(OnlyNew(AgentMessage("execute_arxiv_search_node", "inform_result",
                         IF n = 0 THEN "success_no_results_found"
                         ELSE "success_found_results")))
    /\ ClearError
    /\ Ran("searching", "execute_arxiv_search_node", FALSE)
    /\ UNCHANGED <<api_vars, unit_vars, session_vars, inputs, constructed_queries, scored_arxiv_results,
                   shortlist_vars, analysis_vars, refine_vars, workflow_outcome,
                   retry_vars>>

score_paper_relevance_node ==
    /\ pc = "score_paper_relevance"
    /\ IF ~Truthy(raw_arxiv_results)
       THEN /\ scored_arxiv_results' = <<>>
            /\ Append1(WholeLog(AgentMessage("score_paper_relevance_node", "inform_result",
                                             "skipped_no_raw_results")))
            /\ ClearError
            /\ Ran("score_paper_relevance", "score_paper_relevance_node", FALSE)
       ELSE \E scoring \in [1..Len(raw_arxiv_results) -> Scores] :
            LET scored == [i \in 1..Len(raw_arxiv_results) |->
                             [id |-> raw_arxiv_results[i].id, relevance_score |-> scoring[i]]]
            IN \/ /\ scored_arxiv_results' = scored
                  /\ Append1(WholeLog(AgentMessage("score_paper_relevance_node",
                               "inform_result", "paper_relevance_assessment_complete")))
                  /\ ClearError
                  /\ Ran("score_paper_relevance", "score_paper_relevance_node", FALSE)
               \/ \E em \in ErrorTexts, k \in 0..(Len(raw_arxiv_results) - 1) :
                  /\ scored_arxiv_results' = SubSeq(scored, 1, k)
                  /\ Append1(WholeLog(AgentMessage("score_paper_relevance_node",
                                                   "error_report", em)))
                  /\ ReportError("score_paper_relevance_node", em)
                  /\ Ran("score_paper_relevance", "score_paper_relevance_node", TRUE)
    /\ UNCHANGED <<api_vars, unit_vars, session_vars, inputs, constructed_queries, raw_arxiv_results,
                   shortlist_vars, analysis_vars, refine_vars, workflow_outcome,
                   retry_vars>>

RelevantEnough(paper) == paper.relevance_score >= DEFAULT_SHORTLISTING_THRESHOLD

create_initial_shortlist_node ==
    /\ pc = "create_initial_shortlist"
    /\ IF ~Truthy(scored_arxiv_results)
       THEN /\ initial_paper_shortlist' = <<>>
            /\ Append1(OnlyNew(AgentMessage("create_initial_shortlist_node", "status_update",
                                            "Shortlist creation skipped, no scored results")))
       ELSE /\ initial_paper_shortlist' = SelectSeq(scored_arxiv_results, RelevantEnough)
            /\ Append1(OnlyNew(AgentMessage("create_initial_shortlist_node", "inform_result",
                                            "Initial paper shortlist created")))
    /\ ClearError
    /\ Ran("create_initial_shortlist", "create_initial_shortlist_node", FALSE)
    /\ UNCHANGED <<api_vars, unit_vars, session_vars, inputs, search_vars, confirmed_paper_shortlist,
                   ingestion_reports, analysis_vars, refine_vars, workflow_outcome,
                   retry_vars>>

\* confirmed_shortlist_for_state = initial_shortlist
\* (AutoConfirmedNothing is a review node that confirms no paper.)
AutoConfirmedNothing(initial_shortlist) == <<>>
AutoConfirmed(initial_shortlist) == initial_shortlist

request_shortlist_review_node ==
    /\ pc = "request_shortlist_review"
    /\ IF ~Truthy(initial_paper_shortlist)
       THEN /\ confirmed_paper_shortlist' = <<>>
            /\ Append1(OnlyNew(AgentMessage("request_shortlist_review_node", "status_update",
                                            "Shortlist review skipped, no papers")))
       ELSE IF config_parameters.hitl_shortlist_review_active /\ graph_checkpointer
       THEN /\ confirmed_paper_shortlist' = <<>>
            /\ Append1(OnlyNew(AgentMessage("request_shortlist_review_node", "request_action",
                                            "human_review_requested")))
       ELSE /\ confirmed_paper_shortlist' = AutoConfirmed(initial_paper_shortlist)
            /\ Append1(OnlyNew(AgentMessage("request_shortlist_review_node", "request_action",
                                            "shortlist_auto_confirmed")))
    /\ ClearError
    /\ Ran("request_shortlist_review", "request_shortlist_review_node", FALSE)
    /\ UNCHANGED <<api_vars, unit_vars, session_vars, inputs, search_vars, initial_paper_shortlist,
                   ingestion_reports, analysis_vars, refine_vars, workflow_outcome,
                   retry_vars>>

process_and_ingest_papers_node ==
    /\ pc = "processing_papers"
    /\ IF ~Truthy(confirmed_paper_shortlist)
       THEN /\ ingestion_reports' = <<>>
            /\ Append1(WholeLog(AgentMessage("process_and_ingest_papers_node", "status_update",
                         "Processing/ingestion skipped, no confirmed shortlist")))
       ELSE \E outcome \in [1..Len(confirmed_paper_shortlist) -> {"success", "failed"}] :
            /\ ingestion_reports' = [i \in 1..Len(confirmed_paper_shortlist) |->
                    [paper_id |-> confirmed_paper_shortlist[i].id, status |-> outcome[i]]]
            /\ Append1(WholeLog(AgentMessage("process_and_ingest_papers_node", "inform_result",
                         "Paper processing/ingestion phase complete")))
    /\ ClearError
    /\ Ran("processing_papers", "process_and_ingest_papers_node", FALSE)
    /\ UNCHANGED <<api_vars, unit_vars, session_vars, inputs, search_vars, initial_paper_shortlist,
                   confirmed_paper_shortlist, analysis_vars, refine_vars,
                   workflow_outcome, retry_vars>>

SuccessfullyIngested(reports) ==
    Cardinality({i \in DOMAIN reports : reports[i].status = "success"})

perform_literature_analysis_node ==
    /\ pc = "literature_analysis"
    /\ IF SuccessfullyIngested(OrEmpty(ingestion_reports)) = 0
       THEN /\ literature_analysis_output' = "skipped_no_ingested_content"
            /\ Append1(WholeLog(AgentMessage("perform_literature_analysis_node",
                         "inform_result", "skipped_no_ingested_content")))
            /\ ClearError
            /\ Ran("literature_analysis", "perform_literature_analysis_node", FALSE)
       ELSE \/ \E status \in {"analysis_complete", "analysis_failed_agent_output_issue"} :
                 /\ literature_analysis_output' = status
                 /\ Append1(WholeLog(AgentMessage("perform_literature_analysis_node",
                                                  "inform_result", status)))
                 /\ ClearError
                 /\ Ran("literature_analysis", "perform_literature_analysis_node", FALSE)
            \/ \E em \in ErrorTexts :
                 /\ literature_analysis_output' = "analysis_error"
                 /\ Append1(WholeLog(AgentMessage("perform_literature_analysis_node",
                                                  "error_report", em)))
                 /\ ReportError("perform_literature_analysis_node", em)
                 /\ Ran("literature_analysis", "perform_literature_analysis_node", TRUE)
    /\ UNCHANGED <<api_vars, unit_vars, session_vars, inputs, search_vars, shortlist_vars, conflict_detected,
                   identified_gaps_output, refine_vars, workflow_outcome, retry_vars>>

\* The router node registered with check_for_conflict and the branch map
\* {"conflict_found": "resolve_conflict", "no_conflict": "identifying_gaps"}.
check_conflict_after_literature_analysis ==
    /\ pc = "check_conflict_after_literature_analysis"
    /\ pc' = Lookup(ConflictBranchMap, check_for_conflict(conflict_detected))
    /\ last_node' = "check_conflict_after_literature_analysis"
    /\ UNCHANGED <<api_vars, unit_vars, session_vars, inputs, search_vars, shortlist_vars, analysis_vars,
                   refine_vars, workflow_outcome, messages, error_vars, retry_vars,
                   history>>

identify_research_gaps_node ==
    /\ pc = "identifying_gaps"
    /\ IF literature_analysis_output # "analysis_complete"
       THEN /\ identified_gaps_output' = "skipped_no_valid_analysis"
            /\ Append1(WholeLog(AgentMessage("identify_research_gaps_node",
                         "inform_result", "skipped_no_valid_analysis")))
            /\ ClearError
            /\ Ran("identifying_gaps", "identify_research_gaps_node", FALSE)
       ELSE \/ \E status \in {"gaps_identification_complete",
                              "gaps_identification_failed_agent_output_issue"} :
                 /\ identified_gaps_output' = status
                 /\ Append1(WholeLog(AgentMessage("identify_research_gaps_node",
                                                  "inform_result", status)))
                 /\ ClearError
                 /\ Ran("identifying_gaps", "identify_research_gaps_node", FALSE)
            \/ \E em \in ErrorTexts :
                 /\ identified_gaps_output' = "gaps_identification_error"
                 /\ Append1(WholeLog(AgentMessage("identify_research_gaps_node",
                                                  "error_report", em)))
                 /\ ReportError("identify_research_gaps_node", em)
                 /\ Ran("identifying_gaps", "identify_research_gaps_node", TRUE)
    /\ UNCHANGED <<api_vars, unit_vars, session_vars, inputs, search_vars, shortlist_vars,
                   literature_analysis_output, conflict_detected, refine_vars,
                   workflow_outcome, retry_vars>>

\* state.get("iteration_count", default)
IterationOr(default) == IF iteration_count = UNSET THEN default ELSE iteration_count

generate_research_directions_node ==
    /\ pc = "generating_directions"
    /\ IF identified_gaps_output # "gaps_identification_complete"
       THEN /\ generated_directions_output' =
                   [status |-> "skipped_no_valid_gaps", directions |-> 0]
            /\ iteration_count' = 0
            /\ Append1(WholeLog(AgentMessage("generate_research_directions_node",
                         "inform_result", "skipped_no_valid_gaps")))
            /\ ClearError
            /\ Ran("generating_directions", "generate_research_directions_node", FALSE)
       ELSE \/ \E out \in {[status |-> "directions_generation_complete", directions |-> 1],
                           [status |-> "directions_generation_complete", directions |-> 0],
                           [status |-> "directions_generation_failed_agent_output_issue",
                            directions |-> 0]} :
                 /\ generated_directions_output' = out
                 /\ iteration_count' = 0
                 /\ Append1(WholeLog(AgentMessage("generate_research_directions_node",
                                                  "inform_result", out.status)))
                 /\ ClearError
                 /\ Ran("generating_directions", "generate_research_directions_node", FALSE)
            \/ \E em \in ErrorTexts :
                 /\ generated_directions_output' =
                        [status |-> "directions_generation_error", directions |-> 0]
                 /\ iteration_count' = IterationOr(0)
                 /\ Append1(WholeLog(AgentMessage("generate_research_directions_node",
                                                  "error_report", em)))
                 /\ ReportError("generate_research_directions_node", em)
                 /\ Ran("generating_directions", "generate_research_directions_node", TRUE)
    /\ UNCHANGED <<api_vars, unit_vars, session_vars, inputs, search_vars, shortlist_vars, analysis_vars,
                   postdoc_evaluation_output, refined_directions_output,
                   workflow_outcome, retry_vars>>

\* The count evaluate_research_directions_node writes: one more than it read.
\* (NextIterationRunaway is a step that overshoots the cap at once.)
NextIterationRunaway(ic) == ic + MAX_ITERATIONS_REFINE + 1
NextIteration(ic) == ic + 1

evaluate_research_directions_node ==
    /\ pc = "evaluate_research_directions"
    /\ IF CurrentDirections.directions = 0
       THEN /\ postdoc_evaluation_output' =
                   [NoEvaluation EXCEPT !.status = "skipped_no_directions"]
            /\ iteration_count' = NextIteration(IterationOr(0))
            /\ Append1(WholeLog(AgentMessage("evaluate_research_directions_node",
                         "inform_result", "skipped_no_directions")))
            /\ ClearError
            /\ Ran("evaluate_research_directions", "evaluate_research_directions_node", FALSE)
       ELSE \/ \E out \in EvaluationResults \cup
                    {[NoEvaluation EXCEPT !.status = "evaluation_failed_agent_output_issue"]} :
                 /\ postdoc_evaluation_output' = out
                 /\ iteration_count' = NextIteration(IterationOr(0))
                 /\ Append1(WholeLog(AgentMessage("evaluate_research_directions_node",
                                                  "inform_result", out.status)))
                 /\ ClearError
                 /\ Ran("evaluate_research_directions",
                        "evaluate_research_directions_node", FALSE)
            \/ \E em \in ErrorTexts :
                 /\ postdoc_evaluation_output' =
                        [NoEvaluation EXCEPT !.status = "evaluation_error"]
                 /\ iteration_count' = NextIteration(IterationOr(0))
                 /\ Append1(WholeLog(AgentMessage("evaluate_research_directions_node",
                                                  "error_report", em)))
                 /\ ReportError("evaluate_research_directions_node", em)
                 /\ Ran("evaluate_research_directions",
                        "evaluate_research_directions_node", TRUE)
    /\ UNCHANGED <<api_vars, unit_vars, session_vars, inputs, search_vars, shortlist_vars, analysis_vars,
                   generated_directions_output, refined_directions_output,
                   workflow_outcome, retry_vars>>

CannotRefine(eval) ==
    \/ eval.status = "None"
    \/ eval.status = "skipped_no_directions"
    \/ eval.status = "evaluation_error"
    \/ eval.status = "pending_human_evaluation"

refine_directions_based_on_assessment_node ==
    /\ pc = "refine_directions"
    /\ LET fn == "refine_directions_based_on_assessment_node"
           passthrough(detail) ==
               /\ refined_directions_output' = CurrentDirections
               /\ UNCHANGED iteration_count
               /\ Append1(WholeLog(AgentMessage(fn, "inform_result", detail)))
               /\ ClearError
               /\ Ran("refine_directions", fn, FALSE)
       IN IF CannotRefine(postdoc_evaluation_output)
          THEN passthrough("refinement_skipped_invalid_evaluation")
          ELSE IF ~postdoc_evaluation_output.assessments /\ CurrentDirections.directions = 0
          THEN /\ refined_directions_output' =
                     [status |-> "refinement_skipped_no_assessment_or_directions",
                      directions |-> 0]
               /\ UNCHANGED iteration_count
               /\ Append1(WholeLog(AgentMessage(fn, "inform_result",
                            "refinement_skipped_no_assessment_or_directions")))
               /\ ClearError
               /\ Ran("refine_directions", fn, FALSE)
          ELSE IF ~postdoc_evaluation_output.assessments
          THEN passthrough("refinement_skipped_no_assessment_details")
          ELSE \/ \E out \in {[status |-> "refinement_complete", directions |-> 1],
                              [status |-> "refinement_complete", directions |-> 0],
                              [status |-> "refinement_failed_agent_output_issue",
                               directions |-> CurrentDirections.directions]} :
                    /\ refined_directions_output' = out
                    /\ iteration_count' = IterationOr(1)
                    /\ Append1(WholeLog(AgentMessage(fn, "inform_result", out.status)))
                    /\ ClearError
                    /\ Ran("refine_directions", fn, FALSE)
               \/ \E em \in ErrorTexts :
                    /\ refined_directions_output' =
                           [status |-> "refinement_error",
                            directions |-> IF refined_directions_output.directions > 0
                                           THEN refined_directions_output.directions
                                           ELSE generated_directions_output.directions]
                    /\ iteration_count' = IterationOr(1)
                    /\ Append1(WholeLog(AgentMessage(fn, "error_report", em)))
                    /\ ReportError(fn, em)
                    /\ Ran("refine_directions", fn, TRUE)
    /\ UNCHANGED <<api_vars, unit_vars, session_vars, inputs, search_vars, shortlist_vars, analysis_vars,
                   generated_directions_output, postdoc_evaluation_output,
                   workflow_outcome, retry_vars>>

\* The router node registered with should_refine_further and the branch map
\* {"evaluate_research_directions": ..., "presenting_final_directions": ...}.
\* A step that raises writes nothing: the checkpoint's latest writer stays.
check_refinement_loop_condition ==
    /\ pc = "check_refinement_loop_condition"
    /\ pc' = Lookup(RefinementBranchMap,
                    should_refine_further(IterationOr(0), postdoc_evaluation_output))
    /\ last_node' = IF pc' = RAISED THEN last_node ELSE "check_refinement_loop_condition"
    /\ UNCHANGED <<api_vars, unit_vars, session_vars, inputs, search_vars, shortlist_vars, analysis_vars,
                   refine_vars, workflow_outcome, messages, error_vars, retry_vars,
                   history>>

\* --------------------------------------------------------- error handling
RecoveryStrategy(current_retries) ==
    IF current_retries < MAX_RETRIES THEN "RETRY_NODE" ELSE "TERMINATE_SAFELY"

global_error_handler_node ==
    /\ pc = "global_error_handler"
    /\ LET source_node == error_source_node
           current_retries == retry_attempts[source_node]
           strategy == RecoveryStrategy(current_retries)
       IN /\ recovery_strategy_decision' = strategy
          /\ IF strategy = "RETRY_NODE"
             THEN /\ retry_attempts' = [retry_attempts EXCEPT ![source_node] = current_retries + 1]
                  /\ ClearError
             ELSE UNCHANGED <<retry_attempts, error_vars>>
          /\ Append1(WholeLog(AgentMessage("global_error_handler_node", "error_report",
                        IF strategy = "RETRY_NODE" THEN "RETRY" ELSE "TERMINATE")))
    /\ last_node' = "global_error_handler"
    /\ pc' = route_after_error_handler(recovery_strategy_decision', error_source_node')
    /\ UNCHANGED <<api_vars, unit_vars, session_vars, inputs, search_vars, shortlist_vars, analysis_vars,
                   refine_vars, workflow_outcome, history>>

\* ----------------------------------------------------------- API: review
ConfirmedChoices ==
    {[i \in 1..n |-> [id |-> i, relevance_score |-> 90]] : n \in 0..MaxPapers}

\* graph.update_state writes as the node that ran last and evaluates that
\* node's conditional edge on the updated state; ainvoke(None) continues there.
ResumeTarget ==
    IF last_node = "global_error_handler"
    THEN route_after_error_handler(recovery_strategy_decision, error_source_node)
    ELSE AfterNode(last_node, error_message)

\* POST /workflows/{id}/shortlist_review
submit_shortlist_review ==
    /\ pc \in {END, RAISED}
    /\ reviews < MaxReviews
    /\ reviews' = reviews + 1
    /\ \E confirmed_papers \in ConfirmedChoices :
          confirmed_paper_shortlist' = confirmed_papers
    /\ Append1(messages \o <<AgentMessage("user_via_api", "INFORM_CONTENT",
                                         "paper_shortlist_confirmation")>>)
    /\ pc' = ResumeTarget
    /\ UNCHANGED <<unit_vars, session_vars, last_node, starts, valid_starts, tasks, inputs, search_vars,
                   initial_paper_shortlist,
                   ingestion_reports, analysis_vars, refine_vars, workflow_outcome,
                   error_vars, retry_vars, history>>

\* ----------------------------------------------------------- API: status
\* GET /workflows/{id}: _map_state_to_status_response reads the key
\* is_waiting_for_shortlist_review from the checkpointed values.  The key is
\* no channel of GraphState (start_workflow's entry for it is dropped by the
\* graph) and no node returns it, so the lookup yields its default.
is_waiting_for_shortlist_review == FALSE

is_waiting_for_input == is_waiting_for_shortlist_review

\* ------------------------------------------------------------------- Next
Next ==
    \/ start_workflow
    \/ submit_shortlist_review
    \/ initialize_workflow_node
    \/ formulate_search_queries_node
    \/ execute_arxiv_search_node
    \/ score_paper_relevance_node
    \/ create_initial_shortlist_node
    \/ request_shortlist_review_node
    \/ process_and_ingest_papers_node
    \/ perform_literature_analysis_node
    \/ check_conflict_after_literature_analysis
    \/ identify_research_gaps_node
    \/ generate_research_directions_node
    \/ evaluate_research_directions_node
    \/ refine_directions_based_on_assessment_node
    \/ check_refinement_loop_condition
    \/ global_error_handler_node

Spec == Init /\ [][Next]_vars

\* ------------------------------------------------------------ interleaving
\* Spec takes the API calls one after the other, each graph run ending before
\* the next call.  Interleaving follows calls that arrive while runs are in
\* flight: both endpoints hand graph.ainvoke to BackgroundTasks without looking
\* for a run of the same thread id, and every node function is a coroutine, so
\* the event loop interleaves the runs node by node.  Only the position of
\* each run is followed here (tasks); pc is the next node according to the
\* checkpoint written last.
data_vars == <<unit_vars, session_vars, last_node, starts, valid_starts, reviews, inputs, search_vars,
               shortlist_vars, analysis_vars, refine_vars, workflow_outcome,
               messages, error_vars, retry_vars, history>>

ExecutingPositions == PipelineNodes \cup {"global_error_handler"}

\* background_tasks.add_task(orchestrator.graph.ainvoke, initial_state, config)
start_workflow_task ==
    /\ Len(tasks) < MaxTasks
    /\ tasks' = Append(tasks, "initializing")
    /\ pc' = "initializing"
    /\ UNCHANGED data_vars

\* background_tasks.add_task(orchestrator.graph.ainvoke, None, config): the
\* run continues where the latest checkpoint of the thread points.
submit_shortlist_review_task ==
    /\ Len(tasks) < MaxTasks
    /\ pc # IDLE
    /\ tasks' = Append(tasks, pc)
    /\ UNCHANGED <<pc, data_vars>>

\* Where one step of a run leads: the node's conditional edge on whatever the
\* node returned.
StepTargets(node) ==
    IF node = "global_error_handler"
    THEN {route_after_error_handler(d, NoneStr) : d \in {"RETRY_NODE", "TERMINATE_SAFELY"}}
    ELSE IF node = "check_conflict_after_literature_analysis"
    THEN {Lookup(ConflictBranchMap, check_for_conflict(conflict_detected))}
    ELSE IF node = "check_refinement_loop_condition"
    THEN {Lookup(RefinementBranchMap, should_refine_further(0, e)) : e \in EvaluationResults}
    ELSE {AfterNode(node, em) : em \in ErrorTexts \cup {NoneStr}}

\* One run executes the node it is at and writes its checkpoint.
graph_step ==
    \E i \in DOMAIN tasks :
        /\ tasks[i] \in ExecutingPositions
        /\ \E target \in StepTargets(tasks[i]) :
              /\ tasks' = [tasks EXCEPT ![i] = target]
              /\ pc' = target
        /\ UNCHANGED data_vars

InterleavingNext ==
    \/ start_workflow_task
    \/ submit_shortlist_review_task
    \/ graph_step

Interleaving == Init /\ [][InterleavingNext]_vars

\* ------------------------------------------- conflict and final nodes alone
\* No node of the graph writes conflict_detected or conflicting_outputs, and
\* no run of Spec arrives at presenting_final_directions; the two node
\* functions and the edges around them are followed here from the states in
\* which they are entered.
CandidateLists == {NoCandidates, <<>>, <<"candidate_a">>, <<"candidate_a", "candidate_b">>}

\* resolved_data: conflicts[0] if conflicts is a non-empty list, else the
\* committed literature_analysis_output.
\* (resolved_data_last picks the last candidate.)
resolved_data_last(conflicts, committed) ==
    IF conflicts # NoCandidates /\ conflicts # <<>> THEN conflicts[Len(conflicts)]
    ELSE committed
resolved_data(conflicts, committed) ==
    IF conflicts # NoCandidates /\ conflicts # <<>> THEN Head(conflicts)
    ELSE committed

resolve_conflict_node ==
    /\ pc = "resolve_conflict"
    /\ literature_analysis_output' = resolved_data(conflicting_outputs,
                                                   literature_analysis_output)
    /\ conflict_detected' = FALSE
    /\ conflicting_outputs' = NoCandidates
    /\ ClearError
    /\ Append1(WholeLog(AgentMessage("resolve_conflict_node", "inform_result",
                                     "conflict_resolved")))
    /\ Ran("resolve_conflict", "resolve_conflict_node", FALSE)
    /\ UNCHANGED <<api_vars, session_vars, inputs, search_vars, shortlist_vars,
                   identified_gaps_output, refine_vars, workflow_outcome, retry_vars,
                   user_facing_report_data, returned_label>>

\* workflow_outcome as the two return statements of prepare_final_output_node
\* set it.  (AlwaysSuccess is a node that reports success from its except
\* branch too.)
AlwaysSuccess(failed) == "success"
FinalOutcome(failed) == IF failed THEN "error_in_finalization" ELSE "success"

\* The body builds the report from the state; len() of a directions value
\* that is no list is what can raise in it.
prepare_final_output_node ==
    /\ pc = "presenting_final_directions"
    /\ \/ /\ user_facing_report_data' = "completed_successfully"
          /\ Append1(WholeLog(AgentMessage("prepare_final_output_node", "inform_result",
                                           "Research workflow completed successfully.")))
          /\ ClearError
          /\ workflow_outcome' = FinalOutcome(FALSE)
          /\ Ran("presenting_final_directions", "prepare_final_output_node", FALSE)
       \/ \E em \in ErrorTexts :
          /\ user_facing_report_data' = "error_in_final_reporting"
          /\ Append1(WholeLog(AgentMessage("prepare_final_output_node", "error_report", em)))
          /\ ReportError("prepare_final_output_node", em)
          /\ workflow_outcome' = FinalOutcome(TRUE)
          /\ Ran("presenting_final_directions", "prepare_final_output_node", TRUE)
    /\ UNCHANGED <<api_vars, session_vars, inputs, search_vars, shortlist_vars,
                   analysis_vars, refine_vars, retry_vars, conflicting_outputs,
                   returned_label>>

EntryNodes == {"check_conflict_after_literature_analysis", "presenting_final_directions"}
AnalysisOutputs == {"analysis_complete", "analysis_failed_agent_output_issue"}
DirectionsOutputs == {[status |-> "directions_generation_complete", directions |-> 1],
                      [status |-> "directions_generation_complete", directions |-> 0]}
RefinedOutputs == {NoOutput, [status |-> "refinement_complete", directions |-> 1]}

InitUnits ==
    /\ pc \in EntryNodes
    /\ last_node = IF pc = "presenting_final_directions"
                   THEN "check_refinement_loop_condition" ELSE "literature_analysis"
    /\ starts = 1
    /\ valid_starts = 1
    /\ reviews = 0
    /\ tasks = <<>>
    /\ research_query = "q"
    /\ config_parameters = [hitl_shortlist_review_active |-> FALSE]
    /\ constructed_queries = Prefix(1)
    /\ raw_arxiv_results = Prefix(1)
    /\ scored_arxiv_results = <<[id |-> 1, relevance_score |-> 90]>>
    /\ initial_paper_shortlist = scored_arxiv_results
    /\ confirmed_paper_shortlist = scored_arxiv_results
    /\ ingestion_reports = <<[paper_id |-> 1, status |-> "success"]>>
    /\ literature_analysis_output \in AnalysisOutputs
    /\ IF pc = "presenting_final_directions"
       THEN /\ conflict_detected = FALSE
            /\ conflicting_outputs = NoCandidates
            /\ identified_gaps_output = "gaps_identification_complete"
            /\ generated_directions_output \in DirectionsOutputs
            /\ iteration_count \in 1..MAX_ITERATIONS_REFINE
            /\ postdoc_evaluation_output \in EvaluationResults
            /\ refined_directions_output \in RefinedOutputs
       ELSE /\ conflict_detected \in BOOLEAN
            /\ conflicting_outputs \in CandidateLists
            /\ identified_gaps_output = "None"
            /\ generated_directions_output = NoOutput
            /\ iteration_count = 0
            /\ postdoc_evaluation_output = NoEvaluation
            /\ refined_directions_output = NoOutput
    /\ workflow_outcome = NoneStr
    /\ messages = <<>>
    /\ error_message = NoneStr
    /\ error_source_node = NoneStr
    /\ error_details = NoneStr
    /\ recovery_strategy_decision = NoneStr
    /\ retry_attempts = NoRetries
    /\ executions = NoRetries
    /\ failures = NoRetries
    /\ user_facing_report_data = NoneStr
    /\ returned_label = NoneStr
    /\ NoSessions

UnitsNext ==
    \/ check_conflict_after_literature_analysis
    \/ resolve_conflict_node
    \/ prepare_final_output_node
    \/ global_error_handler_node

Units == InitUnits /\ [][UnitsNext]_vars

\* ----------------------------------------------------------- session store
\* services/session_storage.py on its own: calls of create_session,
\* get_session and delete_session for the ids of SessionIds, in any order,
\* while the clock advances.  No caller sets a status other than through
\* these functions.
Delays == {900, 1800}

workflow_vars == <<pc, last_node, api_vars, inputs, search_vars, shortlist_vars,
                   analysis_vars, refine_vars, workflow_outcome, messages, error_vars,
                   retry_vars, history, unit_vars>>

\* Time passes between two calls.
clock_advances ==
    /\ \E d \in Delays :
          /\ now + d <= MaxClock
          /\ now' = now + d
    /\ UNCHANGED <<_session_store, returned, marked, workflow_vars>>

create_session(id) ==
    /\ IF _session_store[id] # NoSession
       THEN /\ returned' = [op |-> "create_session", value |-> "ValueError"]
            /\ UNCHANGED _session_store
       ELSE /\ _session_store' = [_session_store EXCEPT ![id] =
                   [status |-> "active",
                    expires_at |-> now + SESSION_ABSOLUTE_TIMEOUT_SECONDS,
                    last_activity_at |-> now]]
            /\ returned' = [op |-> "create_session", value |-> "session"]
    /\ UNCHANGED <<now, marked, workflow_vars>>

update_session(store, id, updated_session_data) ==
    IF store[id] # NoSession THEN [store EXCEPT ![id] = updated_session_data] ELSE store

\* now >= session.last_activity_at + timedelta(seconds=SESSION_IDLE_TIMEOUT_SECONDS)
\* (idle_expired_late is the test with > for >=.)
idle_expired_late(session, t) ==
    t > session.last_activity_at + SESSION_IDLE_TIMEOUT_SECONDS
idle_expired(session, t) ==
    t >= session.last_activity_at + SESSION_IDLE_TIMEOUT_SECONDS

get_session(id) ==
    /\ LET session == _session_store[id]
       IN IF session = NoSession \/ session.status # "active"
          THEN /\ returned' = [op |-> "get_session", value |-> "None"]
               /\ UNCHANGED <<_session_store, marked>>
          ELSE IF now >= session.expires_at \/ idle_expired(session, now)
          THEN /\ _session_store' = update_session(_session_store, id,
                                                   [session EXCEPT !.status = "expired"])
               /\ marked' = marked \cup {id}
               /\ returned' = [op |-> "get_session", value |-> "None"]
          ELSE /\ _session_store' = update_session(_session_store, id,
                                                   [session EXCEPT !.last_activity_at = now])
               /\ returned' = [op |-> "get_session", value |-> "session"]
               /\ UNCHANGED marked
    /\ UNCHANGED <<now, workflow_vars>>

delete_session(id) ==
    /\ IF _session_store[id] # NoSession
       THEN /\ _session_store' = [_session_store EXCEPT ![id] = NoSession]
            /\ returned' = [op |-> "delete_session", value |-> "True"]
       ELSE /\ returned' = [op |-> "delete_session", value |-> "False"]
            /\ UNCHANGED _session_store
    /\ UNCHANGED <<now, marked, workflow_vars>>

SessionsNext ==
    \/ clock_advances
    \/ \E id \in SessionIds : create_session(id)
    \/ \E id \in SessionIds : get_session(id)
    \/ \E id \in SessionIds : delete_session(id)

Sessions == Init /\ [][SessionsNext]_vars

\* ------------------------------------------------- routing function alone
\* should_refine_further applied to states drawn from the values its two
\* reads can have: iteration_count absent or a count, postdoc_evaluation_output
\* absent (read as {}) or a dict whose accept_as_is and score are present or
\* absent (score 0 and accept_as_is FALSE are what the .get defaults give).
RoutingScores == {0, 50, 84, 85, 90}
RoutingEvaluations ==
    {NoEvaluation} \cup
    {[status |-> "evaluation_by_postdoc_complete", accept_as_is |-> a, score |-> sc,
      assessments |-> TRUE] : a \in BOOLEAN, sc \in RoutingScores}
RoutingCounts == {UNSET} \cup 0..MaxIterationInput

InitRouting ==
    /\ pc = "check_refinement_loop_condition"
    /\ last_node = "refine_directions"
    /\ starts = 1
    /\ valid_starts = 1
    /\ reviews = 0
    /\ tasks = <<>>
    /\ research_query = "q"
    /\ config_parameters = [hitl_shortlist_review_active |-> FALSE]
    /\ constructed_queries = NoneList
    /\ raw_arxiv_results = NoneList
    /\ scored_arxiv_results = NoneList
    /\ initial_paper_shortlist = NoneList
    /\ confirmed_paper_shortlist = NoneList
    /\ ingestion_reports = NoneList
    /\ literature_analysis_output = "None"
    /\ conflict_detected = FALSE
    /\ identified_gaps_output = "None"
    /\ generated_directions_output = NoOutput
    /\ iteration_count \in RoutingCounts
    /\ postdoc_evaluation_output \in RoutingEvaluations
    /\ refined_directions_output = NoOutput
    /\ workflow_outcome = NoneStr
    /\ messages = <<>>
    /\ error_message = NoneStr
    /\ error_source_node = NoneStr
    /\ error_details = NoneStr
    /\ recovery_strategy_decision = NoneStr
    /\ retry_attempts = NoRetries
    /\ executions = NoRetries
    /\ failures = NoRetries
    /\ conflicting_outputs = NoCandidates
    /\ user_facing_report_data = NoneStr
    /\ returned_label = NoneStr
    /\ NoSessions

\* One call of the function on the state; it writes nothing.
call_should_refine_further ==
    /\ returned_label = NoneStr
    /\ returned_label' = should_refine_further(IterationOr(0), postdoc_evaluation_output)
    /\ UNCHANGED <<pc, last_node, api_vars, inputs, search_vars, shortlist_vars,
                   analysis_vars, refine_vars, workflow_outcome, messages, error_vars,
                   retry_vars, history, conflicting_outputs, user_facing_report_data,
                   session_vars>>

RoutingNext == call_should_refine_further

Routing == InitRouting /\ [][RoutingNext]_vars

TypeOK ==
    /\ pc \in RETRYABLE_NODES \cup {END, IDLE, RAISED, "global_error_handler",
                 "check_conflict_after_literature_analysis",
                 "check_refinement_loop_condition"}
    /\ iteration_count \in {UNSET} \cup Nat
    /\ retry_attempts \in [FunctionNames -> Nat]

\* ================================================================ properties
\* A step of the error handler: it is the only action enabled at its node.
HandlerRuns == pc = "global_error_handler"

TerminalOutcomes == {"success", "error", "max_iterations_reached", "max_retries_reached"}

ErrorsUnset ==
    /\ error_message = NoneStr
    /\ error_source_node = NoneStr
    /\ error_details = NoneStr

\* C1: whenever the error handler runs for a failed node N whose retry count
\* is below MAX_RETRIES, it adds one to retry_attempts[N], clears the three
\* error fields, and the node the engine executes next is N itself.
C1_RetryReexecutesFailedNode ==
    [][(HandlerRuns /\ retry_attempts[error_source_node] < MAX_RETRIES)
        => /\ retry_attempts'[error_source_node] = retry_attempts[error_source_node] + 1
           /\ ErrorsUnset'
           /\ pc' = last_node]_vars

\* C2: once a node has failed three times and the handler has decided to
\* terminate, workflow_outcome is max_retries_reached, the node's retry count
\* equals MAX_RETRIES and the engine is at its terminal state.
C2_ThirdFailureSetsMaxRetriesReached ==
    \A f \in FunctionNames :
        (/\ failures[f] = MAX_RETRIES + 1
         /\ last_node = "global_error_handler"
         /\ error_source_node = f
         /\ recovery_strategy_decision = "TERMINATE_SAFELY")
        => /\ workflow_outcome = "max_retries_reached"
           /\ retry_attempts[f] = MAX_RETRIES
           /\ pc = END

\* C3: right after the third execution of a node that failed twice before and
\* now succeeded, its retry count is 2, the error fields are unset and the
\* engine is at the node's normal successor.
C3_SuccessAfterTwoFailuresKeepsCount ==
    \A node \in RETRYABLE_NODES :
        (/\ last_node = node
         /\ executions[NodeFunction(node)] = 3
         /\ failures[NodeFunction(node)] = 2
         /\ error_message = NoneStr
         /\ pc \notin {END, RAISED})
        => /\ retry_attempts[NodeFunction(node)] = 2
           /\ ErrorsUnset
           /\ pc = SuccessTarget(node)

\* C4: every retry counter stays within 0..MAX_RETRIES and no step of the
\* workflow lowers a counter.
C4_RetryCountersBoundedAndMonotone ==
    [][\A f \in FunctionNames :
          /\ retry_attempts[f] \in 0..MAX_RETRIES
          /\ retry_attempts'[f] \in 0..MAX_RETRIES
          /\ retry_attempts'[f] >= retry_attempts[f]]_vars

C8_StoppedEngineHasTerminalOutcome ==
    pc \in {END, RAISED} => workflow_outcome \in TerminalOutcomes

\* C9: after a first start with an empty research_query the engine is at its
\* terminal state with workflow_outcome = error and error_source_node naming the
\* initializing node, and no node after it has run or written a message.
C9_EmptyQueryEndsAsInitError ==
    (starts = 1 /\ reviews = 0 /\ research_query = "" /\ pc = END)
    => /\ workflow_outcome = "error"
       /\ error_source_node = "initialize_workflow_node"
       /\ \A f \in FunctionNames \ {"initialize_workflow_node"} : executions[f] = 0
       /\ \A i \in 1..Len(messages) :
             messages[i].sender \in {"SystemInitializer", "initialize_workflow_node",
                                     "global_error_handler_node"}

\* C10: for a validation failure (the initializing node found research_query
\* missing) the handler neither chooses the retry strategy nor increments the
\* node's retry counter, and the node is not executed again in that run.
C10_ValidationFailureNotRetried ==
    [][(HandlerRuns /\ error_source_node = "initialize_workflow_node"
                    /\ research_query = "")
        => /\ recovery_strategy_decision' # "RETRY_NODE"
           /\ retry_attempts' = retry_attempts
           /\ pc' # "initializing"]_vars

\* A step of POST /workflows/{id}/shortlist_review.
ReviewSubmitted == reviews' = reviews + 1

LaterNodes == {"processing_papers", "literature_analysis",
               "check_conflict_after_literature_analysis", "resolve_conflict",
               "identifying_gaps", "generating_directions",
               "evaluate_research_directions", "refine_directions",
               "check_refinement_loop_condition", "presenting_final_directions"}

\* C11: with hitl_shortlist_review_active set and a non-empty initial
\* shortlist, the state the review node leaves shows the workflow waiting for
\* input with an empty confirmed shortlist, and the engine is not at
\* processing_papers or any later node before a review has been submitted.
C11_ReviewNodeSuspendsForHuman ==
    (/\ config_parameters.hitl_shortlist_review_active
     /\ Truthy(initial_paper_shortlist)
     /\ executions["request_shortlist_review_node"] > 0
     /\ reviews = 0
     /\ research_query # "")
    => /\ is_waiting_for_input
       /\ confirmed_paper_shortlist = <<>>
       /\ pc \notin LaterNodes

C17_TerminalStateIsFinal ==
    [][pc = END
        => /\ pc' = END
           /\ executions' = executions
           /\ workflow_outcome' = workflow_outcome
           /\ messages' = messages]_vars

\* C18: node executions of one workflow id are strictly sequential: at most
\* one graph run of the id is at a node at any time.
C18_AtMostOneRunExecutes ==
    Cardinality({i \in DOMAIN tasks : tasks[i] \in ExecutingPositions}) <= 1

AllOutcomes == TerminalOutcomes \cup {"running", "waiting_for_review"}

\* C19: workflow_outcome, when set, is one of the six outcomes of the spec, and
\* a run that has ended has left one of the four terminal outcomes in it.
C19_OutcomeSetAndTerminalAtEnd ==
    /\ workflow_outcome # NoneStr => workflow_outcome \in AllOutcomes
    /\ (pc = END /\ starts > 0) => workflow_outcome \in TerminalOutcomes

\* An evaluation that is not accepted and whose score meets the threshold.
MeetsThresholdOnly(eval) ==
    ~eval.accept_as_is /\ eval.score >= MIN_ACCEPTABLE_SCORE

\* C20: the loop's router sends an evaluation that meets the score threshold
\* to the final node and any other unaccepted evaluation below the cap back
\* into the loop; and an evaluation that meets the threshold at the iteration
\* cap leaves through the score-threshold test, not the cap test.
C20_LoopExitsOnScoreThreshold ==
    [][pc = "check_refinement_loop_condition"
        => /\ MeetsThresholdOnly(postdoc_evaluation_output)
                => pc' = "presenting_final_directions"
           /\ FinalizeReason(IterationOr(0), postdoc_evaluation_output) = "continue"
                => pc' \in {"evaluate_research_directions", "refine_directions"}
           /\ \A e \in EvaluationResults :
                 MeetsThresholdOnly(e)
                 => FinalizeReason(MAX_ITERATIONS_REFINE, e) = "score_threshold"]_vars

\* C21: should_refine_further writes nothing and returns the finalize label if
\* and only if the evaluation is accepted as-is, or the iteration count has
\* reached MAX_ITERATIONS_REFINE, or the score is at least 0.85; in every
\* other case, a missing evaluation or score included, the refine label.
C21_FinalizeIffAcceptedCapOrScore ==
    [][returned_label' # NoneStr
        => LET finalize == \/ postdoc_evaluation_output.accept_as_is
                           \/ IterationOr(0) >= MAX_ITERATIONS_REFINE
                           \/ postdoc_evaluation_output.score >= MIN_ACCEPTABLE_SCORE
           IN /\ finalize => returned_label' = "finalize_output"
              /\ ~finalize => returned_label' = "refine_directions"
              /\ UNCHANGED <<pc, iteration_count, postdoc_evaluation_output, messages>>]_vars

\* C21 witness: the function has returned the refine label for a state with
\* no evaluation in it.
C21_RefineOnMissingEvaluation ==
    /\ returned_label = "refine_directions"
    /\ postdoc_evaluation_output = NoEvaluation
    /\ iteration_count = UNSET

\* C22: after every pipeline node the engine goes to global_error_handler if
\* and only if error_message is non-empty in the merged state, and otherwise
\* to the node's success-path successor; after the error handler it goes to
\* the failed node or to the terminal state.
C22_ErrorEdgeIffErrorMessage ==
    [][/\ pc \in RETRYABLE_NODES
            => /\ pc' = "global_error_handler" <=> error_message' \notin {NoneStr, ""}
               /\ error_message' \in {NoneStr, ""} => pc' = SuccessTarget(pc)
       /\ pc = "global_error_handler" => pc' \in {last_node, END}]_vars

\* C22 witness: a node has reported an error and the engine is at the handler.
C22_AtHandlerAfterError ==
    /\ pc = "global_error_handler"
    /\ last_node \in RETRYABLE_NODES
    /\ error_message = "boom"

\* C23: whenever a node has reported an error, error_source_node is the id
\* under which that node is registered in the graph (one of RETRYABLE_NODES,
\* what the retry router compares against) and error_message is non-empty.
C23_ErrorSourceIsGraphNodeId ==
    error_source_node # NoneStr
    => /\ error_source_node \in RETRYABLE_NODES
       /\ error_message \notin {NoneStr, ""}

\* A step that executes a node function (a pipeline node or the handler).
NodeExecutes == pc \in RETRYABLE_NODES \cup {"global_error_handler"}

\* C24: every execution of a node, on its success, skip and error paths
\* alike, leaves the messages log strictly longer than it was.
C24_EveryExecutionAddsMessage ==
    [][NodeExecutes => Len(messages') > Len(messages)]_vars

\* A step in which a pipeline node returns its error delta.
NodeFails == pc \in RETRYABLE_NODES /\ failures' # failures

C27_EveryRoutingLabelHasTarget ==
    /\ pc # RAISED
    /\ pc = "check_refinement_loop_condition"
          => should_refine_further(IterationOr(0), postdoc_evaluation_output)
                \in DOMAIN RefinementBranchMap
    /\ pc = "check_conflict_after_literature_analysis"
          => check_for_conflict(conflict_detected) \in DOMAIN ConflictBranchMap
    /\ pc \in RETRYABLE_NODES
          => \A em \in ErrorTexts \cup {NoneStr} :
                AfterNode(pc, em) \in RETRYABLE_NODES \cup
                    {END, "global_error_handler", "check_refinement_loop_condition",
                     "check_conflict_after_literature_analysis"}

C30_MarkedIdNeverActiveAgain ==
    [][\A id \in SessionIds :
          /\ (get_session(id) /\ returned'.value = "session")
                => /\ _session_store[id].status = "active"
                   /\ now < _session_store[id].expires_at
                   /\ now < _session_store[id].last_activity_at
                              + SESSION_IDLE_TIMEOUT_SECONDS
          /\ id \in marked
                => /\ get_session(id) => returned'.value = "None"
                   /\ _session_store'[id].status # "active"
          /\ (create_session(id) /\ _session_store[id] # NoSession)
                => /\ returned'.value = "ValueError"
                   /\ _session_store' = _session_store]_vars

\* C30, amended: as above, but the EXPIRED clause holds for the session while
\* it is stored: for an id stored with status EXPIRED every get_session
\* returns None and the next status is EXPIRED or the id is deleted; only a
\* delete_session followed by a create_session makes the id ACTIVE again.
C30_ExpiredSessionStaysExpired ==
    [][\A id \in SessionIds :
          /\ (get_session(id) /\ returned'.value = "session")
                => /\ _session_store[id].status = "active"
                   /\ now < _session_store[id].expires_at
                   /\ now < _session_store[id].last_activity_at
                              + SESSION_IDLE_TIMEOUT_SECONDS
          /\ _session_store[id].status = "expired"
                => /\ get_session(id) => returned'.value = "None"
                   /\ _session_store'[id].status \in {"expired", "absent"}
          /\ (_session_store'[id].status = "active" /\ _session_store[id].status # "active")
                => (create_session(id) /\ _session_store[id] = NoSession)
          /\ (create_session(id) /\ _session_store[id] # NoSession)
                => /\ returned'.value = "ValueError"
                   /\ _session_store' = _session_store]_vars

\* C30 witness: a session kept alive by get_session calls until its absolute
\* expiry, then marked EXPIRED and refused.
C30_ExpiredAtAbsoluteExpiry ==
    \E id \in SessionIds :
        /\ _session_store[id].status = "expired"
        /\ id \in marked
        /\ now >= _session_store[id].expires_at
        /\ now < _session_store[id].last_activity_at + SESSION_IDLE_TIMEOUT_SECONDS
        /\ returned = [op |-> "get_session", value |-> "None"]

====
